---- MODULE Spec2Model ----
(***************************************************************************)
(* Coupon application (app.py): offers, coupon codes, and the request      *)
(* handlers create_offer, claim_offer, view_coupon and redeem, each run by *)
(* a request thread against one shared SQLite store.  A handler is split   *)
(* at the points where it reads the store and where it commits, so that    *)
(* two requests interleave the way two threads of the server do.           *)
(*                                                                         *)
(* Strings are sequences of one-character strings.  None is a reserved     *)
(* one-element sequence that no text can equal.                            *)
(***************************************************************************)
EXTENDS Integers, Sequences, FiniteSets, TLC

\* ------------------------------------------------------------------ bounds
MaxOffers == 2
MaxCoupons == 2
MaxDays == 2
MaxRequests == 3

\* ------------------------------------------------------- program constants
MaxAttempts == 10
PrefixLen == 4
CodeLength == 10

\* the request threads that run the handlers of more than one step, and the
\* day the clock starts on
Procs == {1, 2}
StartDate == <<2025, 11, 4>>

\* ----------------------------------------------------------------- strings
None == <<"<None>">>
NoTime == -1
Empty == <<>>

Whitespace == {" ", "\t"}

Lowers == <<"a", "b", "c", "d", "e", "f", "g", "h", "i", "j", "k", "l", "m",
            "n", "o", "p", "q", "r", "s", "t", "u", "v", "w", "x", "y", "z">>
Uppers == <<"A", "B", "C", "D", "E", "F", "G", "H", "I", "J", "K", "L", "M",
            "N", "O", "P", "Q", "R", "S", "T", "U", "V", "W", "X", "Y", "Z">>

UpperMap == [c \in {Lowers[k] : k \in 1..Len(Lowers)} |->
               Uppers[CHOOSE k \in 1..Len(Lowers) : Lowers[k] = c]]
UpperChar(c) == IF c \in DOMAIN UpperMap THEN UpperMap[c] ELSE c

\* str.upper()
Upper(s) == [k \in 1..Len(s) |-> UpperChar(s[k])]

\* str.strip(): drop leading and trailing whitespace
RECURSIVE LStrip(_)
LStrip(s) == IF s # Empty /\ Head(s) \in Whitespace THEN LStrip(Tail(s)) ELSE s
RECURSIVE RStrip(_)
RStrip(s) == IF s # Empty /\ s[Len(s)] \in Whitespace
             THEN RStrip(SubSeq(s, 1, Len(s) - 1)) ELSE s
\* (variant: only the leading whitespace is dropped)
StripLeadingOnly(s) == LStrip(s)
Strip(s) == RStrip(LStrip(s))

\* s[:n]
Prefix(s, n) == SubSeq(s, 1, IF Len(s) < n THEN Len(s) ELSE n)

\* (x or "")
OrEmpty(x) == IF x = None THEN Empty ELSE x

\* ------------------------------------------------------------------- dates
Digits == <<"0", "1", "2", "3", "4", "5", "6", "7", "8", "9">>
IsDigit(c) == \E k \in 1..10 : Digits[k] = c
DigitVal(c) == (CHOOSE k \in 1..10 : Digits[k] = c) - 1

RECURSIVE Number(_)
Number(s) == IF s = Empty THEN 0
             ELSE 10 * Number(SubSeq(s, 1, Len(s) - 1)) + DigitVal(s[Len(s)])

AllDigits(s) == \A k \in 1..Len(s) : IsDigit(s[k])

IsLeap(y) == (y % 4 = 0) /\ ((y % 100 # 0) \/ (y % 400 = 0))
DaysInMonth(y, m) ==
  IF m = 2 THEN (IF IsLeap(y) THEN 29 ELSE 28)
  ELSE IF m \in {4, 6, 9, 11} THEN 30 ELSE 31

\* %Y : \d\d\d\d
MatchY(s) == Len(s) = 4 /\ AllDigits(s)
\* %m : 1[0-2]|0[1-9]|[1-9]
MatchM(s) == /\ Len(s) \in {1, 2}
             /\ AllDigits(s)
             /\ Number(s) \in 1..12
\* %d : 3[01]|[12]\d|0[1-9]|[1-9]| [1-9]
MatchD(s) == \/ Len(s) \in {1, 2} /\ AllDigits(s) /\ Number(s) \in 1..31
             \/ Len(s) = 2 /\ s[1] = " " /\ IsDigit(s[2]) /\ DigitVal(s[2]) >= 1
ValD(s) == IF s[1] = " " THEN DigitVal(s[2]) ELSE Number(s)

Dashes(s) == {k \in 1..Len(s) : s[k] = "-"}

\* datetime.strptime(s, "%Y-%m-%d").date(); None stands for ValueError
ParseDate(s) ==
  IF Cardinality(Dashes(s)) # 2 THEN None
  ELSE LET d1 == CHOOSE k \in Dashes(s) : \A j \in Dashes(s) : k <= j
           d2 == CHOOSE k \in Dashes(s) : \A j \in Dashes(s) : k >= j
           ys == SubSeq(s, 1, d1 - 1)
           ms == SubSeq(s, d1 + 1, d2 - 1)
           ds == SubSeq(s, d2 + 1, Len(s))
       IN IF ~(MatchY(ys) /\ MatchM(ms) /\ MatchD(ds)) THEN None
          ELSE IF Number(ys) < 1 \/ ValD(ds) > DaysInMonth(Number(ys), Number(ms))
               THEN None
               ELSE <<Number(ys), Number(ms), ValD(ds)>>

\* a < b on dates
DateLess(a, b) ==
  \/ a[1] < b[1]
  \/ a[1] = b[1] /\ a[2] < b[2]
  \/ a[1] = b[1] /\ a[2] = b[2] /\ a[3] < b[3]

NextDay(d) ==
  IF d[3] < DaysInMonth(d[1], d[2]) THEN <<d[1], d[2], d[3] + 1>>
  ELSE IF d[2] < 12 THEN <<d[1], d[2] + 1, 1>>
  ELSE <<d[1] + 1, 1, 1>>

RECURSIVE AddDays(_, _)
AddDays(d, n) == IF n = 0 THEN d ELSE AddDays(NextDay(d), n - 1)

\* ------------------------------------------------------------------- state
VARIABLES
  offers,   \* table offer: row id = index; rows [restaurant, description, expires]
  coupons,  \* table coupon_code: rows [offer_id, restaurant, description, code,
            \*   expires, redeemed_at, redeemed_by]
  now,      \* the clock, in days since StartDate (the day of datetime.utcnow())
  pc,       \* per request thread: where its handler stands
  loc,      \* per request thread: the handler's local variables
  resp,     \* the last response sent: [op, status, code]
  successes,\* per coupon row: how many redeem requests answered 200 for it
  served    \* the number of requests taken up so far

vars == <<offers, coupons, now, pc, loc, resp, successes, served>>

\* date.today()
Today == AddDays(StartDate, now)

\* CouponCode.is_expired / CouponCode.is_redeemed
\* (variant: expired from the expiration day on)
is_expired_on_the_day(c) == ~DateLess(Today, c.expires)
is_expired(c) == DateLess(c.expires, Today)
is_redeemed(c) == c.redeemed_at # NoTime

\* CouponCode.query.filter_by(code=code).first(): a row index, 0 for no row
FindByCode(code) ==
  IF \E i \in 1..Len(coupons) : coupons[i].code = code
  THEN CHOOSE i \in 1..Len(coupons) :
         /\ coupons[i].code = code
         /\ \A j \in 1..Len(coupons) : coupons[j].code = code => i <= j
  ELSE 0

\* secrets.token_hex(length // 2): the values the model draws
TokenHexes == { <<"0", "a", "1", "b", "2", "c", "3", "d", "4", "e">>,
                <<"f", "f", "f", "f", "f", "f", "f", "f", "f", "f">> }

\* generate_code(prefix, length), hex being the token_hex result
generate_code(prefix, length, hex) ==
  prefix \o <<"-">> \o Prefix(Upper(hex), length)

NoLocals == [offer_id |-> 0, attempt |-> 0, code |-> None, c |-> 0, who |-> Empty]
Response(op, status, code) == [op |-> op, status |-> status, code |-> code]

SeedOffer ==
  [restaurant |-> <<"C", "h", "i", "p", "o", "t", "l", "e">>,
   description |-> <<"F", "r", "e", "e", " ", "c", "h", "i", "p", "s">>,
   expires |-> ParseDate(<<"2", "0", "2", "5", "-", "1", "1", "-", "0", "5">>)]

Init ==
  /\ offers = <<SeedOffer>>
  /\ coupons = <<>>
  /\ now = 0
  /\ pc = [p \in Procs |-> "idle"]
  /\ loc = [p \in Procs |-> NoLocals]
  /\ resp = Response("none", 0, None)
  /\ successes = <<>>
  /\ served = 0

\* a new request is taken up
Accept ==
  /\ served < MaxRequests
  /\ served' = served + 1

\* thread p answers r and is free again
Finish(p, r) ==
  /\ pc' = [pc EXCEPT ![p] = "idle"]
  /\ loc' = [loc EXCEPT ![p] = NoLocals]
  /\ resp' = r

\* a handler of one step answers r
Answer(r) ==
  /\ resp' = r
  /\ UNCHANGED <<pc, loc>>

\* ------------------------------------------------------------ request inputs
\* Each raw form field comes with the value the handler is to make of it,
\* written out by hand: the trimmed text (Empty for a missing or blank field),
\* the date a %Y-%m-%d reading gives (None: not a date), the trimmed and
\* upper-cased code.
RestaurantCases ==
  { [raw |-> None, text |-> Empty],
    [raw |-> <<" ", "\t">>, text |-> Empty],
    [raw |-> <<" ", "a", "b", "\t">>, text |-> <<"a", "b">>],
    [raw |-> <<"C", "h", "i", "p", "s">>, text |-> <<"C", "h", "i", "p", "s">>] }
DescriptionCases ==
  { [raw |-> <<" ">>, text |-> Empty],
    [raw |-> <<"F", "r", "e", "e", " ">>, text |-> <<"F", "r", "e", "e">>] }
ExpiresCases ==
  { [raw |-> None, date |-> None],
    [raw |-> <<" ">>, date |-> None],
    [raw |-> <<"2", "0", "2", "5", "-", "1", "1", "-", "0", "5">>, date |-> <<2025, 11, 5>>],
    [raw |-> <<" ", "2", "0", "2", "5", "-", "1", "1", "-", "0", "4", "\t">>, date |-> <<2025, 11, 4>>],
    [raw |-> <<"2", "0", "2", "5", "-", "1", "1", "-", "3">>, date |-> <<2025, 11, 3>>],
    [raw |-> <<"2", "0", "2", "5", "-", "1", "1", "-", "3", "1">>, date |-> None],
    [raw |-> <<"2", "0", "2", "5", "-", "1", "3", "-", "0", "1">>, date |-> None],
    [raw |-> <<"2", "0", "2", "5", "-", "0", "2", "-", "2", "9">>, date |-> None],
    [raw |-> <<"1", "1", "/", "0", "5", "/", "2", "0", "2", "5">>, date |-> None],
    [raw |-> <<"2", "0", "2", "5", "1", "1", "0", "5">>, date |-> None],
    [raw |-> <<"2", "0", "2", "5", "-", "1", "1", "-", "0", "5", "x">>, date |-> None] }

\* the forms posted to /create_offer: every combination of the cases, and
\* the few of them posted while coupons are issued and redeemed
GoodRestaurant == [raw |-> <<" ", "a", "b", "\t">>, text |-> <<"a", "b">>]
GoodDescription == [raw |-> <<"F", "r", "e", "e", " ">>, text |-> <<"F", "r", "e", "e">>]
OfferForms == RestaurantCases \X DescriptionCases \X ExpiresCases
FewExpires ==
  { <<" ", "2", "0", "2", "5", "-", "1", "1", "-", "0", "4", "\t">>,
    <<"2", "0", "2", "5", "-", "1", "1", "-", "3">>,
    <<"2", "0", "2", "5", "-", "1", "1", "-", "3", "1">> }
FewOfferForms ==
  { f \in OfferForms :
      \/ f[1] = GoodRestaurant /\ f[2] = GoodDescription /\ f[3].raw \in FewExpires
      \/ f[1].raw = None /\ f[2] = GoodDescription /\ f[3].date = <<2025, 11, 5>> }

OfferIds == 1..(MaxOffers + 1)

RedeemCodeCases ==
  { [raw |-> None,
     code |-> Empty],
    [raw |-> <<" ", "\t">>,
     code |-> Empty],
    [raw |-> <<"N", "O", "P", "E">>,
     code |-> <<"N", "O", "P", "E">>],
    [raw |-> <<" ", "c", "h", "i", "p", "-", "0", "a", "1", "b", "2", "c", "3", "d", "4", "e", "\t">>,
     code |-> <<"C", "H", "I", "P", "-", "0", "A", "1", "B", "2", "C", "3", "D", "4", "E">>],
    [raw |-> <<"C", "h", "i", "p", "-", "f", "f", "f", "f", "f", "f", "f", "f", "f", "f", " ">>,
     code |-> <<"C", "H", "I", "P", "-", "F", "F", "F", "F", "F", "F", "F", "F", "F", "F">>],
    [raw |-> <<"a", "b", "-", "0", "a", "1", "b", "2", "C", "3", "D", "4", "E">>,
     code |-> <<"A", "B", "-", "0", "A", "1", "B", "2", "C", "3", "D", "4", "E">>],
    [raw |-> <<"\t", "A", "B", "-", "F", "F", "F", "F", "F", "F", "F", "F", "F", "F">>,
     code |-> <<"A", "B", "-", "F", "F", "F", "F", "F", "F", "F", "F", "F", "F">>] }
WhoCases ==
  { [raw |-> None, text |-> Empty],
    [raw |-> <<" ">>, text |-> Empty],
    [raw |-> <<" ", "A", "l", " ">>, text |-> <<"A", "l">>] }

\* the forms posted to /redeem: every code without a name, and one code with
\* every name
GoodCode ==
  [raw |-> <<" ", "c", "h", "i", "p", "-", "0", "a", "1", "b", "2", "c", "3", "d", "4", "e", "\t">>,
   code |-> <<"C", "H", "I", "P", "-", "0", "A", "1", "B", "2", "C", "3", "D", "4", "E">>]
NoWho == [raw |-> None, text |-> Empty]
RedeemForms ==
  { f \in RedeemCodeCases \X WhoCases : f[1] = GoodCode \/ f[2] = NoWho }

\* the codes asked of /coupon/<code>
ViewCodes == { GoodCode.code, <<"N", "O", "P", "E">> }

\* ------------------------------------------------------------------ storage
\* INSERT INTO coupon_code + commit: code is NOT NULL and UNIQUE
\* (variants: a column without UNIQUE, a column without NOT NULL)
InsertCouponNotNullOnly(row) == row.code # None
InsertCouponUniqueOnly(row) == \A i \in 1..Len(coupons) : coupons[i].code # row.code
InsertCouponOk(row) ==
  /\ row.code # None
  /\ \A i \in 1..Len(coupons) : coupons[i].code # row.code

\* ----------------------------------------------------------------- handlers
\* POST /create_offer
CreateOffer(restaurant_raw, description_raw, expires_raw) ==
  /\ Accept
  /\ IF None \in {restaurant_raw, description_raw, expires_raw}
     THEN \* request.form[...] on a missing field: 400 Bad Request
          /\ Answer(Response("create_offer", 400, None))
          /\ UNCHANGED <<offers, coupons, now, successes>>
     ELSE LET restaurant == Strip(restaurant_raw)
              description == Strip(description_raw)
              expires_str == Strip(expires_raw)
              expires == ParseDate(expires_str)
          IN IF restaurant = Empty \/ description = Empty \/ expires_str = Empty
             THEN /\ Answer(Response("create_offer", 400, None))
                  /\ UNCHANGED <<offers, coupons, now, successes>>
             ELSE IF expires = None
             THEN /\ Answer(Response("create_offer", 400, None))
                  /\ UNCHANGED <<offers, coupons, now, successes>>
             ELSE /\ Len(offers) < MaxOffers
                  /\ offers' = Append(offers,
                                  [restaurant |-> restaurant,
                                   description |-> description,
                                   expires |-> expires])
                  /\ Answer(Response("create_offer", 302, None))
                  /\ UNCHANGED <<coupons, now, successes>>

\* (variant: a missing offer is not answered 404 but fails the request)
ClaimStartNo404(p, offer_id) ==
  /\ pc[p] = "idle"
  /\ Accept
  /\ IF offer_id \notin 1..Len(offers)
     THEN /\ Finish(p, Response("claim", 500, None))
          /\ UNCHANGED <<offers, coupons, now, successes>>
     ELSE /\ Len(coupons) < MaxCoupons
          /\ pc' = [pc EXCEPT ![p] = "claim_loop"]
          /\ loc' = [loc EXCEPT ![p] = [NoLocals EXCEPT !.offer_id = offer_id]]
          /\ UNCHANGED <<offers, coupons, now, resp, successes>>

\* POST /claim/<offer_id>: Offer.query.get_or_404, prefix, code = None
ClaimStart(p, offer_id) ==
  /\ pc[p] = "idle"
  /\ Accept
  /\ IF offer_id \notin 1..Len(offers)
     THEN /\ Finish(p, Response("claim", 404, None))
          /\ UNCHANGED <<offers, coupons, now, successes>>
     ELSE /\ Len(coupons) < MaxCoupons
          /\ pc' = [pc EXCEPT ![p] = "claim_loop"]
          /\ loc' = [loc EXCEPT ![p] = [NoLocals EXCEPT !.offer_id = offer_id]]
          /\ UNCHANGED <<offers, coupons, now, resp, successes>>

\* one pass of `for _ in range(10)`
ClaimTry(p, hex) ==
  /\ pc[p] = "claim_loop"
  /\ LET offer == offers[loc[p].offer_id]
         prefix == Upper(Prefix(offer.restaurant, PrefixLen))
         candidate == generate_code(prefix, CodeLength, hex)
     IN IF FindByCode(candidate) = 0
        THEN /\ loc' = [loc EXCEPT ![p].code = candidate]
             /\ pc' = [pc EXCEPT ![p] = "claim_commit"]
        ELSE /\ loc' = [loc EXCEPT ![p].attempt = @ + 1]
             /\ pc' = [pc EXCEPT ![p] =
                         IF loc[p].attempt + 1 = MaxAttempts
                         THEN "claim_commit" ELSE "claim_loop"]
  /\ UNCHANGED <<offers, coupons, now, resp, successes, served>>

\* (variants: the description taken from the wrong column; a row born redeemed)
NewCouponWrongColumn(p) ==
  LET offer == offers[loc[p].offer_id]
  IN [offer_id |-> loc[p].offer_id,
      restaurant |-> offer.restaurant,
      description |-> offer.restaurant,
      code |-> loc[p].code,
      expires |-> offer.expires,
      redeemed_at |-> NoTime,
      redeemed_by |-> None]
NewCouponBornRedeemed(p) ==
  LET offer == offers[loc[p].offer_id]
  IN [offer_id |-> loc[p].offer_id,
      restaurant |-> offer.restaurant,
      description |-> offer.description,
      code |-> loc[p].code,
      expires |-> offer.expires,
      redeemed_at |-> now,
      redeemed_by |-> None]

\* the row claim_offer builds from the offer it loaded
NewCoupon(p) ==
  LET offer == offers[loc[p].offer_id]
  IN [offer_id |-> loc[p].offer_id,
      restaurant |-> offer.restaurant,
      description |-> offer.description,
      code |-> loc[p].code,
      expires |-> offer.expires,
      redeemed_at |-> NoTime,
      redeemed_by |-> None]

\* db.session.add(coupon); db.session.commit(); the JSON answer
ClaimCommit(p) ==
  /\ pc[p] = "claim_commit"
  /\ IF InsertCouponOk(NewCoupon(p))
     THEN /\ Len(coupons) < MaxCoupons
          /\ coupons' = Append(coupons, NewCoupon(p))
          /\ successes' = Append(successes, 0)
          /\ Finish(p, Response("claim", 200, loc[p].code))
     ELSE \* IntegrityError: nothing is written, the request fails
          /\ UNCHANGED <<coupons, successes>>
          /\ Finish(p, Response("claim", 500, None))
  /\ UNCHANGED <<offers, now, served>>

\* GET /coupon/<code>
ViewCoupon(code) ==
  /\ Accept
  /\ Answer(Response("view", IF FindByCode(code) = 0 THEN 404 ELSE 200, None))
  /\ UNCHANGED <<offers, coupons, now, successes>>

\* (variant: the redeemed check made before the expired check)
RedeemCheckRedeemedFirst(p, code_raw, who_raw) ==
  /\ pc[p] = "idle"
  /\ Accept
  /\ LET code == Upper(Strip(OrEmpty(code_raw)))
         who == Strip(OrEmpty(who_raw))
         c == FindByCode(code)
     IN IF code = Empty
        THEN Finish(p, Response("redeem", 400, None))
        ELSE IF c = 0
        THEN Finish(p, Response("redeem", 404, None))
        ELSE IF is_redeemed(coupons[c])
        THEN Finish(p, Response("redeem", 409, code))
        ELSE IF is_expired(coupons[c])
        THEN Finish(p, Response("redeem", 410, code))
        ELSE /\ pc' = [pc EXCEPT ![p] = "redeem_write"]
             /\ loc' = [loc EXCEPT ![p] = [NoLocals EXCEPT !.c = c, !.who = who]]
             /\ resp' = resp
  /\ UNCHANGED <<offers, coupons, now, successes>>

\* POST /redeem, up to the last precondition
RedeemCheck(p, code_raw, who_raw) ==
  /\ pc[p] = "idle"
  /\ Accept
  /\ LET code == Upper(Strip(OrEmpty(code_raw)))
         who == Strip(OrEmpty(who_raw))
         c == FindByCode(code)
     IN IF code = Empty
        THEN Finish(p, Response("redeem", 400, None))
        ELSE IF c = 0
        THEN Finish(p, Response("redeem", 404, None))
        ELSE IF is_expired(coupons[c])
        THEN Finish(p, Response("redeem", 410, code))
        ELSE IF is_redeemed(coupons[c])
        THEN Finish(p, Response("redeem", 409, code))
        ELSE /\ pc' = [pc EXCEPT ![p] = "redeem_write"]
             /\ loc' = [loc EXCEPT ![p] = [NoLocals EXCEPT !.c = c, !.who = who]]
             /\ resp' = resp
  /\ UNCHANGED <<offers, coupons, now, successes>>

\* c.redeemed_at = utcnow(); redeemed_by; commit; the JSON answer
RedeemWrite(p) ==
  /\ pc[p] = "redeem_write"
  /\ LET c == loc[p].c
     IN /\ coupons' = [coupons EXCEPT
                         ![c].redeemed_at = now,
                         ![c].redeemed_by =
                            IF loc[p].who # Empty THEN loc[p].who ELSE @]
        /\ successes' = [successes EXCEPT ![c] = @ + 1]
        /\ Finish(p, Response("redeem", 200, coupons[c].code))
  /\ UNCHANGED <<offers, now, served>>

\* time passes
Tick ==
  /\ now < MaxDays
  /\ now' = now + 1
  /\ UNCHANGED <<offers, coupons, pc, loc, resp, successes, served>>

Next ==
  \/ \E f \in FewOfferForms : CreateOffer(f[1].raw, f[2].raw, f[3].raw)
  \/ \E p \in Procs, o \in OfferIds : ClaimStart(p, o)
  \/ \E p \in Procs, h \in TokenHexes : ClaimTry(p, h)
  \/ \E p \in Procs : ClaimCommit(p)
  \/ \E code \in ViewCodes : ViewCoupon(code)
  \/ \E p \in Procs, f \in RedeemForms : RedeemCheck(p, f[1].raw, f[2].raw)
  \/ \E p \in Procs : RedeemWrite(p)
  \/ Tick

Spec == Init /\ [][Next]_vars

\* offer creation and lookups alone, with every form
NextOffers ==
  \/ \E f \in OfferForms : CreateOffer(f[1].raw, f[2].raw, f[3].raw)
  \/ \E code \in ViewCodes : ViewCoupon(code)
  \/ Tick

SpecOffers == Init /\ [][NextOffers]_vars

TypeOK ==
  /\ Len(offers) \in 1..MaxOffers
  /\ Len(coupons) \in 0..MaxCoupons
  /\ now \in 0..MaxDays
  /\ \A p \in Procs : pc[p] \in {"idle", "claim_loop", "claim_commit", "redeem_write"}

\* ================================================================ properties
Rows == 1..Len(coupons)

\* the Active state: redeemed_at unset and today <= expiration date
Active(c) == c.redeemed_at = NoTime /\ ~DateLess(c.expires, Today)

\* the coupon row a normalised code names, 0 for none
RowOf(code) ==
  IF \E i \in Rows : coupons[i].code = code
  THEN CHOOSE i \in Rows : coupons[i].code = code
  ELSE 0

\* C1: of the Redeem requests for one coupon, run in any interleaving, at
\* most one answers 200.
C1_AtMostOneSuccess == \A i \in DOMAIN successes : successes[i] <= 1

\* C2: a Redeem of an existing coupon goes on to write (and then answers 200
\* with redeemed_at set) exactly when the coupon is Active as the request
\* evaluates it; an expired coupon is answered 410 and an already redeemed one
\* 409, with no write; redeemed_at is only ever set by such a write.
C2_RedeemIffActive ==
  [][ /\ \A p \in Procs, f \in RedeemForms :
           ( /\ resp'.op = "redeem" \/ pc'[p] = "redeem_write"
             /\ RowOf(f[1].code) # 0
             /\ RedeemCheck(p, f[1].raw, f[2].raw) ) =>
             LET c == coupons[RowOf(f[1].code)]
             IN /\ coupons' = coupons
                /\ (pc'[p] = "redeem_write") <=> Active(c)
                /\ pc'[p] = "redeem_write" => loc'[p].c = RowOf(f[1].code)
                /\ ~Active(c) => pc'[p] = "idle" /\ resp'.status \in {409, 410}
                /\ DateLess(c.expires, Today) => resp'.status = 410
      /\ \A p \in Procs :
           (pc[p] # "redeem_write" /\ pc'[p] = "redeem_write") =>
             Active(coupons[loc'[p].c])
      /\ \A p \in Procs :
           RedeemWrite(p) => /\ resp'.op = "redeem" /\ resp'.status = 200
                             /\ coupons'[loc[p].c].redeemed_at # NoTime
      /\ \A i \in Rows :
           coupons'[i].redeemed_at # coupons[i].redeemed_at =>
             \E p \in Procs : pc[p] = "redeem_write" /\ loc[p].c = i /\ RedeemWrite(p)
    ]_vars

C2_Witness ==
  /\ resp.op = "redeem" /\ resp.status = 200
  /\ \E i \in Rows : coupons[i].code = resp.code /\ coupons[i].redeemed_at # NoTime

\* C3: Redeem answers by the first failing precondition, in the order
\* blank code 400, unknown code 404, expired 410, already redeemed 409, and
\* otherwise goes on to answer 200; so expired and redeemed gives 410.
C3_OrderedChecks ==
  [][ /\ \A p \in Procs, f \in RedeemForms :
           ( /\ resp'.op = "redeem" \/ pc'[p] = "redeem_write"
             /\ RedeemCheck(p, f[1].raw, f[2].raw) ) =>
             IF f[1].code = Empty
             THEN pc'[p] = "idle" /\ resp' = Response("redeem", 400, None)
             ELSE IF RowOf(f[1].code) = 0
             THEN pc'[p] = "idle" /\ resp' = Response("redeem", 404, None)
             ELSE LET c == coupons[RowOf(f[1].code)]
                  IN IF DateLess(c.expires, Today)
                     THEN pc'[p] = "idle" /\ resp'.status = 410
                     ELSE IF c.redeemed_at # NoTime
                     THEN pc'[p] = "idle" /\ resp'.status = 409
                     ELSE pc'[p] = "redeem_write"
      /\ \A p \in Procs : RedeemWrite(p) => resp'.status = 200
    ]_vars

\* a coupon both expired and redeemed was answered 410
C3_Witness ==
  /\ resp.op = "redeem" /\ resp.status = 410
  /\ \E i \in Rows : /\ coupons[i].code = resp.code
                      /\ coupons[i].redeemed_at # NoTime
                      /\ DateLess(coupons[i].expires, Today)

\* C4: no two stored coupons have the same code.
C4_UniqueCodes ==
  \A i \in Rows, j \in Rows : i # j => coupons[i].code # coupons[j].code

\* two Issue requests raced on one candidate: the code a request is about to
\* insert has been stored by another since it was checked
C4_Witness ==
  \E p \in Procs : /\ pc[p] = "claim_commit"
                   /\ loc[p].code # None
                   /\ \E i \in Rows : coupons[i].code = loc[p].code

\* C5: no coupon row is ever deleted, and a row whose redeemed_at is set never
\* changes again (so a row changes at most once after its creation).
C5_OneWay ==
  [][ /\ Len(coupons') >= Len(coupons)
      /\ \A i \in Rows :
           /\ coupons[i].redeemed_at # NoTime => coupons'[i] = coupons[i]
           /\ coupons'[i] # coupons[i] =>
                /\ coupons[i].redeemed_at = NoTime
                /\ coupons'[i].redeemed_at # NoTime
    ]_vars

\* C6: a successful Issue appends exactly one row, a copy of the offer's
\* restaurant, description and expiration under the offer's id, and changes
\* no offer and no earlier row.
C6_IssueFrame ==
  [][ \A p \in Procs :
        (ClaimCommit(p) /\ resp'.status = 200) =>
          /\ offers' = offers
          /\ Len(coupons') = Len(coupons) + 1
          /\ SubSeq(coupons', 1, Len(coupons)) = coupons
          /\ LET new == coupons'[Len(coupons')]
             IN /\ new.offer_id \in 1..Len(offers)
                /\ new.offer_id = loc[p].offer_id
                /\ new.restaurant = offers[new.offer_id].restaurant
                /\ new.description = offers[new.offer_id].description
                /\ new.expires = offers[new.offer_id].expires
                /\ new.code = resp'.code
    ]_vars

\* one offer issued twice: two distinct coupons of it
C6_Witness ==
  \E i \in Rows, j \in Rows :
    /\ i # j
    /\ coupons[i].offer_id = coupons[j].offer_id
    /\ coupons[i].code # coupons[j].code

\* C7 as stated: every coupon is Active at the moment Issue persists it.
C7_IssuedActive ==
  [][ \A p \in Procs :
        (ClaimCommit(p) /\ Len(coupons') > Len(coupons)) =>
          LET new == coupons'[Len(coupons')]
          IN new.redeemed_at = NoTime /\ ~DateLess(new.expires, Today)
    ]_vars

\* C7 amended: a coupon is persisted with redeemed_at and redeemed_by unset
\* and with the offer's expiration date; it is Active exactly when today <=
\* that date, and Expired from the start when the offer's date has passed.
C7_IssuedUnredeemed ==
  [][ \A p \in Procs :
        (ClaimCommit(p) /\ Len(coupons') > Len(coupons)) =>
          LET new == coupons'[Len(coupons')]
          IN /\ new.redeemed_at = NoTime
             /\ new.redeemed_by = None
             /\ new.expires = offers[loc[p].offer_id].expires
             /\ Active(new) <=> ~DateLess(offers[loc[p].offer_id].expires, Today)
    ]_vars

\* a coupon just issued from an offer whose date had passed
C7_Witness ==
  /\ resp.op = "claim" /\ resp.status = 200
  /\ \E i \in Rows : /\ coupons[i].code = resp.code
                      /\ coupons[i].redeemed_at = NoTime
                      /\ DateLess(coupons[i].expires, StartDate)

\* C8: Issue with an offer id that names no offer answers 404 and changes
\* neither table.
C8_IssueNotFound ==
  [][ \A p \in Procs, o \in OfferIds :
        (ClaimStart(p, o) /\ o > Len(offers)) =>
          /\ resp' = Response("claim", 404, None)
          /\ pc'[p] = "idle"
          /\ offers' = offers
          /\ coupons' = coupons
    ]_vars

C8_Witness == resp.op = "claim" /\ resp.status = 404 /\ served > 0

\* C9: offer creation appends one offer, with the trimmed texts and exactly
\* the supplied date (whatever today is), when the three fields are non-blank
\* and the date reads as YYYY-MM-DD; otherwise it answers 400 and changes
\* nothing.
C9_CreateOffer ==
  [][ \A f \in OfferForms :
        (resp'.op = "create_offer" /\ CreateOffer(f[1].raw, f[2].raw, f[3].raw)) =>
          /\ coupons' = coupons
          /\ IF f[1].text # Empty /\ f[2].text # Empty /\ f[3].date # None
             THEN /\ offers' = Append(offers, [restaurant |-> f[1].text,
                                               description |-> f[2].text,
                                               expires |-> f[3].date])
                  /\ resp'.status = 302
             ELSE /\ offers' = offers
                  /\ resp'.status = 400
    ]_vars

\* an offer stored with a date already past on the first day
C9_Witness ==
  /\ Len(offers) > 1
  /\ \E k \in 2..Len(offers) : DateLess(offers[k].expires, StartDate)

\* C10: Issue makes at most 10 tries and takes the first candidate that is
\* not stored; after 10 collisions its code is unset, the insert fails, the
\* answer is not a success, and no row with a null or empty code is stored.
C10_RetryBound ==
  [][ /\ \A i \in 1..Len(coupons') : coupons'[i].code \notin {None, Empty}
      /\ \A p \in Procs :
           /\ loc'[p].attempt <= MaxAttempts
           /\ pc'[p] = "claim_loop" => loc'[p].attempt < MaxAttempts
           /\ pc'[p] = "claim_commit" =>
                (loc'[p].code = None <=> loc'[p].attempt = MaxAttempts)
           /\ \A h \in TokenHexes :
                ClaimTry(p, h) =>
                  /\ loc[p].attempt < MaxAttempts
                  /\ (pc'[p] = "claim_commit" /\ loc'[p].code # None) =>
                       /\ \A i \in Rows : coupons[i].code # loc'[p].code
                       /\ loc'[p].attempt = loc[p].attempt
           /\ (ClaimCommit(p) /\ loc[p].code = None) =>
                /\ coupons' = coupons
                /\ resp'.op = "claim" /\ resp'.status # 200
    ]_vars

\* all 10 candidates collided
C10_Witness ==
  \E p \in Procs : /\ pc[p] = "claim_commit"
                   /\ loc[p].attempt = MaxAttempts
                   /\ loc[p].code = None

====
